---- MODULE Spec2Model ----
(***************************************************************************)
(* Model of native/src/api.rs: the privileged directory listing helpers    *)
(* ls_with_polkit and ls_with_sudo, their two strategies                   *)
(* (PkexecLsMethod, SudoLsMethod), the external processes they spawn and   *)
(* the shared result file /tmp/result.txt.                                 *)
(*                                                                         *)
(* Text is a sequence of bytes.  "LF" is \n, "CR" is \r, "NUL" is a zero    *)
(* byte, "XX" is a byte that is not valid UTF-8 (0xFF); the other bytes    *)
(* are ordinary characters.  A password is a sequence of characters; "#"   *)
(* and " " are the shell's comment and blank characters.                   *)
(***************************************************************************)
EXTENDS Naturals, Integers, Sequences, FiniteSets, TLC

\* ---------------------------------------------------------------- bounds
\* calls one caller makes one after the other
MaxCalls == 2
\* length of the try-list of ls_with_polkit (the source registers one method)
MaxMethods == 2
\* length of the raw texts the line splitting is applied to
MaxLen == 4

VARIABLES
    pc,        \* per caller: position in the program
    op,        \* per caller: the public function being executed
    password,  \* per caller: the argument of ls_with_sudo
    methods,   \* per caller: the vector of methods of the running call
    idx,       \* per caller: position of the for loop in methods
    child,     \* per caller: the external process of the running strategy
    wrote,     \* per caller: the bytes its pipeline wrote to the result file
    started,   \* per caller: indices of the methods whose execute() began
    finished,  \* per caller: outcome of every execute() that ended
    spawns,    \* per caller: Command spawn attempts of the running call
    ret,       \* per caller: the Result the public function returned
    calls,     \* per caller: calls made so far
    file,      \* /tmp/result.txt
    backend,   \* what sudo answers to each password it reads
    raw,       \* input of the line splitting (splitting specification)
    split      \* output of the line splitting (splitting specification)

vars == <<pc, op, password, methods, idx, child, wrote, started, finished,
          spawns, ret, calls, file, backend, raw, split>>

Threads == DOMAIN pc

\* ------------------------------------------------------------ error values
\* the messages of the anyhow! errors and of the expect() panics
MsgPermissionDenied == "Permission Denied"
MsgPkexecFailed == "Failed to elevate privileges with pkexec method."
MsgPasswordRequired == "Password required"
MsgPolkitFailed == "Failed to elevate privileges with polkit."
MsgSudoFailed == "Failed to elevate privileges with sudo."
MsgFromUtf8 == "FromUtf8Error"
MsgReadFailed == "Failed to read result file"

Ok(v) == [ok |-> TRUE, val |-> v, err |-> ""]
Err(m) == [ok |-> FALSE, val |-> <<>>, err |-> m]
NoResult == Err("")

\* the error classes of the specification's taxonomy
ErrorClass(m) ==
    CASE m = MsgPermissionDenied -> "PermissionDenied"
      [] m = MsgPasswordRequired -> "PermissionDenied"
      [] m = MsgPkexecFailed -> "ElevationToolUnavailable"
      [] m = MsgPolkitFailed -> "ElevationFailed"
      [] m = MsgSudoFailed -> "ElevationFailed"
      [] OTHER -> "Unclassified"

\* ------------------------------------------------------------------- text
IsUtf8(bs) == \A i \in 1..Len(bs) : bs[i] # "XX"

FirstLF(s) ==
    IF \E i \in 1..Len(s) : s[i] = "LF"
    THEN CHOOSE i \in 1..Len(s) : s[i] = "LF" /\ \A j \in 1..(i - 1) : s[j] # "LF"
    ELSE 0

\* str::split_inclusive('\n'): every piece but possibly the last ends in LF
RECURSIVE split_inclusive(_)
split_inclusive(s) ==
    IF s = <<>> THEN <<>>
    ELSE LET k == FirstLF(s) IN
         IF k = 0 THEN <<s>>
         ELSE <<SubSeq(s, 1, k)>> \o split_inclusive(SubSeq(s, k + 1, Len(s)))

\* a piece without its "\n" or "\r\n"; a piece with no "\n" is left alone
strip_line_ending(l) ==
    IF l # <<>> /\ l[Len(l)] = "LF"
    THEN LET m == SubSeq(l, 1, Len(l) - 1) IN
         IF m # <<>> /\ m[Len(m)] = "CR" THEN SubSeq(m, 1, Len(m) - 1) ELSE m
    ELSE l

\* a splitting that also drops the empty lines
lines_skip_empty(s) ==
    SelectSeq([i \in 1..Len(split_inclusive(s)) |->
                  strip_line_ending(split_inclusive(s)[i])],
              LAMBDA l : l # <<>>)

\* str::lines() followed by map(String::from).collect()
lines(s) ==
    [i \in 1..Len(split_inclusive(s)) |-> strip_line_ending(split_inclusive(s)[i])]

\* ------------------------------------------------------- the environment
\* passwords a caller may pass (any string is a legal argument)
Passwords == {<<>>, <<"c">>, <<"w">>, <<"#">>}

\* listings the privileged ls may print
Listings == {<<"a", "LF">>, <<"b", "LF", "b", "LF">>, <<"XX", "LF">>}

\* what pkexec's child may leave on its standard output
Stdouts == Listings \cup {<<>>}

\* exit codes of a child: 0 is success, 126 and 127 are pkexec's refusals
ExitCodes == {0, 126, 127}

Reject == [ok |-> FALSE, out |-> <<>>]
Accept(l) == [ok |-> TRUE, out |-> l]
Replies == {Reject} \cup {Accept(l) : l \in Listings}

\* the passwords sudo may be configured to know
SudoInputs == {<<"c">>, <<"w">>}

\* sudo -S reads the password echo printed; an unknown one is rejected
BackendReply(input) ==
    IF input \in DOMAIN backend THEN backend[input] ELSE Reject

NoFile == [exists |-> FALSE, data |-> <<>>]
FileOf(d) == [exists |-> TRUE, data |-> d]

\* what an earlier run of the program may have left in /tmp/result.txt
StaleFiles == {NoFile, FileOf(<<"s", "LF">>)}

\* write(2) of chunk c at offset off of an open file: a gap is zero filled
WriteAt(d, off, c) ==
    LET padded == IF Len(d) < off
                  THEN d \o [i \in 1..(off - Len(d)) |-> "NUL"]
                  ELSE d
    IN SubSeq(padded, 1, off) \o c \o SubSeq(padded, off + Len(c) + 1, Len(padded))

NoChild == [state |-> "none", status |-> 0, stdout |-> <<>>, off |-> 0,
            pending |-> <<>>]

\* --------------------------------------------------- sh -c command line
\* format!("echo {}", password) inside
\* format!("{} | sudo -S ls -la /root > /tmp/result.txt", echo_cmd):
\* the words of the command line handed to sh -c
CommandLine(pw) ==
    <<"e", "c", "h", "o", " ">> \o pw \o <<" ", "|", " ", "sudo -S ls -la /root",
      " ", ">", " ", "/tmp/result.txt">>

\* sh: a "#" that begins a word starts a comment reaching the end of the line
CommentStart(cmd) ==
    IF \E i \in 2..Len(cmd) : cmd[i] = "#" /\ cmd[i - 1] = " "
    THEN CHOOSE i \in 2..Len(cmd) :
            /\ cmd[i] = "#" /\ cmd[i - 1] = " "
            /\ \A j \in 2..(i - 1) : ~(cmd[j] = "#" /\ cmd[j - 1] = " ")
    ELSE 0

\* the command line sh executes, comment removed
Uncommented(cmd) ==
    IF CommentStart(cmd) = 0 THEN cmd ELSE SubSeq(cmd, 1, CommentStart(cmd) - 1)

\* whether the pipe into sudo and the redirection survive in what sh executes
HasPipeline(pw) == \E i \in 1..Len(Uncommented(CommandLine(pw))) :
                      Uncommented(CommandLine(pw))[i] = "|"

\* what echo prints into sudo's standard input
EchoOutput(pw) == pw

\* ------------------------------------------------------------ strategies
\* PkexecLsMethod::execute that takes every exit for a success
PkexecLsMethod_execute_any_status(spawned, status, stdout) ==
    IF ~spawned THEN Err(MsgPkexecFailed)
    ELSE IF IsUtf8(stdout) THEN Ok(lines(stdout)) ELSE Err(MsgFromUtf8)

\* PkexecLsMethod::execute, the match on what Command::output() gave
PkexecLsMethod_execute(spawned, status, stdout) ==
    IF ~spawned THEN Err(MsgPkexecFailed)
    ELSE IF status = 0
         THEN IF IsUtf8(stdout) THEN Ok(lines(stdout)) ELSE Err(MsgFromUtf8)
         ELSE Err(MsgPermissionDenied)

\* fs::read_to_string("/tmp/result.txt"): None stands for the Err it may give
ReadToString(f) ==
    IF f.exists /\ IsUtf8(f.data) THEN [some |-> TRUE, text |-> f.data]
    ELSE [some |-> FALSE, text |-> <<>>]

\* ls_with_sudo: map_err on what the method returned
ls_with_sudo_map_err(res) == IF res.ok THEN res ELSE Err(MsgSudoFailed)

\* a loop that hands the method's own error to the caller
ls_with_polkit_match_propagate(res, i) ==
    [pc |-> "returned", ret |-> res, idx |-> i]

\* a loop that goes on after a success
ls_with_polkit_match_no_return(res, i) ==
    [pc |-> "polkit_loop", ret |-> NoResult, idx |-> i + 1]

\* a loop that tries a failed method again
ls_with_polkit_match_retry(res, i) ==
    IF res.ok THEN [pc |-> "returned", ret |-> res, idx |-> i]
    ELSE [pc |-> "polkit_loop", ret |-> NoResult, idx |-> i]

\* ls_with_polkit: the match in the body of the for loop, at method i
ls_with_polkit_match(res, i) ==
    IF res.ok THEN [pc |-> "returned", ret |-> res, idx |-> i]
    ELSE [pc |-> "polkit_loop", ret |-> NoResult, idx |-> i + 1]

\* the record of one execute() that ended
Outcome(i, proc, status, stdout, res) ==
    [idx |-> i, proc |-> proc, status |-> status, stdout |-> stdout, res |-> res]

\* ------------------------------------------------------------------ calls
\* the per call state of caller t at the entry of a public function
Enter(t, f, pw, ms, at) ==
    /\ pc[t] \in {"idle", "returned"}
    /\ pc' = [pc EXCEPT ![t] = at]
    /\ op' = [op EXCEPT ![t] = f]
    /\ password' = [password EXCEPT ![t] = pw]
    /\ methods' = [methods EXCEPT ![t] = ms]
    /\ idx' = [idx EXCEPT ![t] = 1]
    /\ child' = [child EXCEPT ![t] = NoChild]
    /\ wrote' = [wrote EXCEPT ![t] = <<>>]
    /\ started' = [started EXCEPT ![t] = <<>>]
    /\ finished' = [finished EXCEPT ![t] = <<>>]
    /\ spawns' = [spawns EXCEPT ![t] = 0]
    /\ ret' = [ret EXCEPT ![t] = NoResult]
    /\ calls' = [calls EXCEPT ![t] = @ + 1]
    /\ UNCHANGED <<file, backend, raw, split>>

\* ls_with_polkit(): the vector of methods is built; the source builds
\* vec![Box::new(PkexecLsMethod)], the loop is modelled for n of them
Call_ls_with_polkit(t) ==
    /\ calls[t] < MaxCalls
    /\ \E n \in 1..MaxMethods :
          Enter(t, "ls_with_polkit", <<>>, [i \in 1..n |-> "PkexecLsMethod"],
                "polkit_loop")

\* ls_with_sudo(password): SudoLsMethod { password } is built
Call_ls_with_sudo(t) ==
    /\ calls[t] < MaxCalls
    /\ \E pw \in Passwords :
          Enter(t, "ls_with_sudo", pw, <<"SudoLsMethod">>, "sudo_execute")

\* ----------------------------------------------------------- ls_with_polkit
\* the for loop ran out of methods: Err(anyhow!(...polkit.))
PolkitExhausted(t) ==
    /\ pc[t] = "polkit_loop"
    /\ idx[t] > Len(methods[t])
    /\ pc' = [pc EXCEPT ![t] = "returned"]
    /\ ret' = [ret EXCEPT ![t] = Err(MsgPolkitFailed)]
    /\ UNCHANGED <<op, password, methods, idx, child, wrote, started, finished,
                   spawns, calls, file, backend, raw, split>>

\* method.execute() of the next method: Command::new("pkexec")...output()
\* either cannot spawn the child, or spawns it and waits for it
PkexecSpawn(t) ==
    /\ pc[t] = "polkit_loop"
    /\ idx[t] <= Len(methods[t])
    /\ started' = [started EXCEPT ![t] = Append(@, idx[t])]
    /\ spawns' = [spawns EXCEPT ![t] = @ + 1]
    /\ \/ LET res == PkexecLsMethod_execute(FALSE, 0, <<>>)
              m == ls_with_polkit_match(res, idx[t])
          IN /\ finished' = [finished EXCEPT ![t] =
                    Append(@, Outcome(idx[t], "spawn_failed", 0, <<>>, res))]
             /\ pc' = [pc EXCEPT ![t] = m.pc]
             /\ ret' = [ret EXCEPT ![t] = m.ret]
             /\ idx' = [idx EXCEPT ![t] = m.idx]
             /\ UNCHANGED child
       \/ /\ child' = [child EXCEPT ![t] = [NoChild EXCEPT !.state = "running"]]
          /\ pc' = [pc EXCEPT ![t] = "pkexec_wait"]
          /\ UNCHANGED <<finished, ret, idx>>
    /\ UNCHANGED <<op, password, methods, wrote, calls, file, backend, raw, split>>

\* the pkexec child ends: some exit code, some standard output
PkexecExit(t) ==
    /\ pc[t] = "pkexec_wait"
    /\ child[t].state = "running"
    /\ \E st \in ExitCodes, out \in Stdouts :
          child' = [child EXCEPT ![t] =
                       [@ EXCEPT !.state = "exited", !.status = st, !.stdout = out]]
    /\ UNCHANGED <<pc, op, password, methods, idx, wrote, started, finished,
                   spawns, ret, calls, file, backend, raw, split>>

\* output() returns Ok(output): the method's result, then the loop's match
PkexecOutput(t) ==
    /\ pc[t] = "pkexec_wait"
    /\ child[t].state = "exited"
    /\ LET res == PkexecLsMethod_execute(TRUE, child[t].status, child[t].stdout)
           m == ls_with_polkit_match(res, idx[t])
       IN /\ finished' = [finished EXCEPT ![t] =
                 Append(@, Outcome(idx[t], "exited", child[t].status,
                                   child[t].stdout, res))]
          /\ pc' = [pc EXCEPT ![t] = m.pc]
          /\ ret' = [ret EXCEPT ![t] = m.ret]
          /\ idx' = [idx EXCEPT ![t] = m.idx]
    /\ child' = [child EXCEPT ![t] = NoChild]
    /\ UNCHANGED <<op, password, methods, wrote, started, spawns, calls, file,
                   backend, raw, split>>

\* ------------------------------------------------------------- ls_with_sudo
\* SudoLsMethod::execute: Command::new("sh").arg("-c")...output().expect(..)
\* panics when sh cannot be spawned, otherwise waits for the child
SudoSpawn(t) ==
    /\ pc[t] = "sudo_execute"
    /\ started' = [started EXCEPT ![t] = Append(@, idx[t])]
    /\ spawns' = [spawns EXCEPT ![t] = @ + 1]
    /\ \/ /\ pc' = [pc EXCEPT ![t] = "panicked"]
          /\ UNCHANGED child
       \/ /\ pc' = [pc EXCEPT ![t] = "sudo_wait"]
          /\ child' = [child EXCEPT ![t] = [NoChild EXCEPT !.state = "sh_start"]]
    /\ UNCHANGED <<op, password, methods, idx, wrote, finished, ret, calls,
                   file, backend, raw, split>>

\* sh reads its command line.  With the pipeline commented out it runs echo
\* alone and exits 0.  Otherwise it opens /tmp/result.txt for the
\* redirection, which truncates the file, or fails to and exits 2.
ShStart(t) ==
    /\ child[t].state = "sh_start"
    /\ IF ~HasPipeline(password[t])
       THEN /\ child' = [child EXCEPT ![t] =
                            [@ EXCEPT !.state = "exited", !.status = 0]]
            /\ UNCHANGED file
       ELSE \/ /\ child' = [child EXCEPT ![t] =
                               [@ EXCEPT !.state = "exited", !.status = 2]]
               /\ UNCHANGED file
            \/ /\ child' = [child EXCEPT ![t] =
                               [@ EXCEPT !.state = "sudo_auth", !.off = 0]]
               /\ file' = FileOf(<<>>)
    /\ UNCHANGED <<pc, op, password, methods, idx, wrote, started, finished,
                   spawns, ret, calls, backend, raw, split>>

\* sudo -S reads the password: it refuses and exits 1, or runs ls
SudoAuth(t) ==
    /\ child[t].state = "sudo_auth"
    /\ LET reply == BackendReply(EchoOutput(password[t])) IN
       child' = [child EXCEPT ![t] =
                    IF reply.ok
                    THEN [@ EXCEPT !.state = "ls_writing", !.pending = reply.out]
                    ELSE [@ EXCEPT !.state = "exited", !.status = 1]]
    /\ UNCHANGED <<pc, op, password, methods, idx, wrote, started, finished,
                   spawns, ret, calls, file, backend, raw, split>>

\* ls writes the next part of its listing at its own offset of the file
LsWrite(t) ==
    /\ child[t].state = "ls_writing"
    /\ child[t].pending # <<>>
    /\ \E k \in 1..Len(child[t].pending) :
          LET chunk == SubSeq(child[t].pending, 1, k) IN
          /\ file' = FileOf(WriteAt(file.data, child[t].off, chunk))
          /\ wrote' = [wrote EXCEPT ![t] = @ \o chunk]
          /\ child' = [child EXCEPT ![t] =
                [@ EXCEPT !.off = @ + k,
                          !.pending = SubSeq(child[t].pending, k + 1,
                                             Len(child[t].pending))]]
    /\ UNCHANGED <<pc, op, password, methods, idx, started, finished, spawns,
                   ret, calls, backend, raw, split>>

\* ls has written everything: the pipeline exits 0
LsExit(t) ==
    /\ child[t].state = "ls_writing"
    /\ child[t].pending = <<>>
    /\ child' = [child EXCEPT ![t] = [@ EXCEPT !.state = "exited", !.status = 0]]
    /\ UNCHANGED <<pc, op, password, methods, idx, wrote, started, finished,
                   spawns, ret, calls, file, backend, raw, split>>

\* output() returns: on failure Err(anyhow!("Password required")), which
\* ls_with_sudo maps; on success the method goes on to read the file
SudoOutput(t) ==
    /\ pc[t] = "sudo_wait"
    /\ child[t].state = "exited"
    /\ IF child[t].status = 0
       THEN /\ pc' = [pc EXCEPT ![t] = "sudo_read"]
            /\ UNCHANGED <<finished, ret>>
       ELSE LET res == Err(MsgPasswordRequired) IN
            /\ finished' = [finished EXCEPT ![t] =
                   Append(@, Outcome(idx[t], "exited", child[t].status, <<>>, res))]
            /\ ret' = [ret EXCEPT ![t] = ls_with_sudo_map_err(res)]
            /\ pc' = [pc EXCEPT ![t] = "returned"]
    /\ child' = [child EXCEPT ![t] = [@ EXCEPT !.state = "reaped"]]
    /\ UNCHANGED <<op, password, methods, idx, wrote, started, spawns, calls,
                   file, backend, raw, split>>

\* fs::read_to_string("/tmp/result.txt").expect(..) panics on a missing or
\* undecodable file; otherwise Ok(output.lines()...collect()) is returned
SudoRead(t) ==
    /\ pc[t] = "sudo_read"
    /\ LET r == ReadToString(file) IN
       IF ~r.some
       THEN /\ pc' = [pc EXCEPT ![t] = "panicked"]
            /\ UNCHANGED <<finished, ret>>
       ELSE LET res == Ok(lines(r.text)) IN
            /\ finished' = [finished EXCEPT ![t] =
                   Append(@, Outcome(idx[t], "exited", child[t].status, <<>>, res))]
            /\ ret' = [ret EXCEPT ![t] = ls_with_sudo_map_err(res)]
            /\ pc' = [pc EXCEPT ![t] = "returned"]
    /\ UNCHANGED <<op, password, methods, idx, child, wrote, started, spawns,
                   calls, file, backend, raw, split>>

\* ------------------------------------------------------- line splitting
\* every text of at most n bytes
RECURSIVE TextsUpTo(_)
TextsUpTo(n) ==
    IF n = 0 THEN {<<>>}
    ELSE LET shorter == TextsUpTo(n - 1) IN
         shorter \cup {Append(s, b) : s \in shorter, b \in {"a", "LF", "CR", "XX"}}

\* String::from_utf8(output.stdout)?, then lines(), on the pkexec path
SplitStdout ==
    /\ pc[1] = "raw"
    /\ pc' = [pc EXCEPT ![1] = "split_stdout"]
    /\ ret' = [ret EXCEPT ![1] = PkexecLsMethod_execute(TRUE, 0, raw)]
    /\ split' = IF IsUtf8(raw) THEN lines(raw) ELSE <<>>
    /\ UNCHANGED <<op, password, methods, idx, child, wrote, started, finished,
                   spawns, calls, file, backend, raw>>

\* read_to_string of a file holding the text, then lines(), on the sudo path
SplitFile ==
    /\ pc[1] = "raw"
    /\ ReadToString(FileOf(raw)).some
    /\ pc' = [pc EXCEPT ![1] = "split_file"]
    /\ ret' = [ret EXCEPT ![1] = Ok(lines(ReadToString(FileOf(raw)).text))]
    /\ split' = lines(ReadToString(FileOf(raw)).text)
    /\ UNCHANGED <<op, password, methods, idx, child, wrote, started, finished,
                   spawns, calls, file, backend, raw>>

\* --------------------------------------------------------- specifications
InitCallers(T, at) ==
    /\ pc = [t \in T |-> at]
    /\ op = [t \in T |-> "none"]
    /\ password = [t \in T |-> <<>>]
    /\ methods = [t \in T |-> <<>>]
    /\ idx = [t \in T |-> 1]
    /\ child = [t \in T |-> NoChild]
    /\ wrote = [t \in T |-> <<>>]
    /\ started = [t \in T |-> <<>>]
    /\ finished = [t \in T |-> <<>>]
    /\ spawns = [t \in T |-> 0]
    /\ ret = [t \in T |-> NoResult]
    /\ calls = [t \in T |-> 0]

\* one caller, whose calls follow one another
Init ==
    /\ InitCallers({1}, "idle")
    /\ file \in StaleFiles
    /\ backend \in [SudoInputs -> Replies]
    /\ raw = <<>>
    /\ split = <<>>

\* the steps of a running call and of its child
Steps(t) ==
    \/ PolkitExhausted(t)
    \/ PkexecSpawn(t)
    \/ PkexecExit(t)
    \/ PkexecOutput(t)
    \/ SudoSpawn(t)
    \/ ShStart(t)
    \/ SudoAuth(t)
    \/ LsWrite(t)
    \/ LsExit(t)
    \/ SudoOutput(t)
    \/ SudoRead(t)

Next ==
    \/ \E t \in Threads : Call_ls_with_polkit(t)
    \/ \E t \in Threads : Call_ls_with_sudo(t)
    \/ \E t \in Threads : PolkitExhausted(t)
    \/ \E t \in Threads : PkexecSpawn(t)
    \/ \E t \in Threads : PkexecExit(t)
    \/ \E t \in Threads : PkexecOutput(t)
    \/ \E t \in Threads : SudoSpawn(t)
    \/ \E t \in Threads : ShStart(t)
    \/ \E t \in Threads : SudoAuth(t)
    \/ \E t \in Threads : LsWrite(t)
    \/ \E t \in Threads : LsExit(t)
    \/ \E t \in Threads : SudoOutput(t)
    \/ \E t \in Threads : SudoRead(t)

Spec == Init /\ [][Next]_vars

\* a running call is not suspended for ever, and a spawned child exits
SpecLive == Init /\ [][Next]_vars /\ WF_vars(Steps(1))

\* two callers, each calling ls_with_sudo once, their steps interleaved
InitConc ==
    /\ InitCallers({1, 2}, "idle")
    /\ file \in StaleFiles
    /\ backend \in [SudoInputs -> Replies]
    /\ raw = <<>>
    /\ split = <<>>

CallConc(t) ==
    /\ calls[t] = 0
    /\ \E pw \in Passwords :
          Enter(t, "ls_with_sudo", pw, <<"SudoLsMethod">>, "sudo_execute")

NextConc ==
    \/ \E t \in Threads : CallConc(t)
    \/ \E t \in Threads : SudoSpawn(t)
    \/ \E t \in Threads : ShStart(t)
    \/ \E t \in Threads : SudoAuth(t)
    \/ \E t \in Threads : LsWrite(t)
    \/ \E t \in Threads : LsExit(t)
    \/ \E t \in Threads : SudoOutput(t)
    \/ \E t \in Threads : SudoRead(t)

SpecConc == InitConc /\ [][NextConc]_vars

\* the line splitting applied to every raw text of at most MaxLen bytes
InitLines ==
    /\ InitCallers({1}, "raw")
    /\ file = NoFile
    /\ backend = [i \in SudoInputs |-> Reject]
    /\ raw \in TextsUpTo(MaxLen)
    /\ split = <<>>

NextLines == SplitStdout \/ SplitFile

SpecLines == InitLines /\ [][NextLines]_vars

\* ------------------------------------------------------------------ claims
SudoReturned(t) == op[t] = "ls_with_sudo" /\ pc[t] = "returned"
PolkitReturned(t) == op[t] = "ls_with_polkit" /\ pc[t] = "returned"

\* C1: two concurrent calls of ls_with_sudo with different passwords, both
\* accepted by a backend whose listings differ: a call whose own pipeline
\* wrote its listing and exited 0 returns that listing, not the other call's
\* and not a mix of the two.
C1_ConcurrentCallsGetOwnOutput ==
    \A t \in Threads, u \in Threads :
        ( /\ t # u
          /\ SudoReturned(t)
          /\ op[u] = "ls_with_sudo"
          /\ password[t] # password[u]
          /\ BackendReply(password[t]).ok
          /\ BackendReply(password[u]).ok
          /\ BackendReply(password[t]).out # BackendReply(password[u]).out
          /\ child[t].status = 0
          /\ wrote[t] = BackendReply(password[t]).out )
        => ret[t] = Ok(lines(BackendReply(password[t]).out))

\* C2: no call panics, and a call that returned holds a success or one
\* classified error.
C2_EveryOperationIsTotal ==
    \A t \in Threads :
        /\ pc[t] # "panicked"
        /\ pc[t] = "returned" =>
              (ret[t].ok \/ ErrorClass(ret[t].err) # "Unclassified")

ExactlyOneAccepted == Cardinality({p \in SudoInputs : backend[p].ok}) = 1

\* C3: with a backend that accepts exactly one password, ls_with_sudo called
\* with a rejected password returns an error of class PermissionDenied.
C3_RejectedPasswordIsPermissionDenied ==
    \A t \in Threads :
        (SudoReturned(t) /\ ExactlyOneAccepted /\ ~BackendReply(password[t]).ok)
        => (~ret[t].ok /\ ErrorClass(ret[t].err) = "PermissionDenied")

AllFailed(t) ==
    /\ Len(finished[t]) = Len(methods[t])
    /\ \A j \in 1..Len(finished[t]) : ~finished[t][j].res.ok

\* C4: ls_with_polkit returns Err("Failed to elevate privileges with polkit.")
\* exactly when every method of its vector failed, and it returns no other
\* error: the reason of a single method never reaches the caller.
C4_AggregateFailureIffAllFailed ==
    \A t \in Threads :
        PolkitReturned(t) =>
            /\ (ret[t] = Err(MsgPolkitFailed)) <=> AllFailed(t)
            /\ ~ret[t].ok => ret[t].err = MsgPolkitFailed

C4_Witness ==
    \E t \in Threads :
        /\ PolkitReturned(t)
        /\ ret[t] = Err(MsgPolkitFailed)
        /\ Len(finished[t]) = 2
        /\ finished[t][1].res.err = MsgFromUtf8
        /\ finished[t][2].res.err = MsgPkexecFailed

\* C5: in a sequence of calls that do not overlap, a call of ls_with_sudo
\* whose pipeline exited 0 returns the lines its own pipeline wrote, in order.
C5_SuccessReturnsOwnLines ==
    \A t \in Threads :
        (SudoReturned(t) /\ child[t].status = 0)
        => ret[t] = Ok(lines(wrote[t]))

\* C6: every call that was entered comes to return a success or an error,
\* given that a child that was spawned exits; and ls_with_polkit, when no
\* child could be spawned, returns an error.
C6_EveryCallReturns ==
    /\ (pc[1] \notin {"idle", "returned"}) ~> (pc[1] = "returned")
    /\ [](( /\ op[1] = "ls_with_polkit"
            /\ pc[1] = "returned"
            /\ \A j \in 1..Len(finished[1]) : finished[1][j].proc = "spawn_failed" )
          => ~ret[1].ok)

\* the lines of a raw text, counted as its line endings demand
NumLines(s) ==
    Cardinality({i \in 1..Len(s) : s[i] = "LF"})
    + (IF s # <<>> /\ s[Len(s)] # "LF" THEN 1 ELSE 0)

\* lines put together again, a "\n" between two of them
RECURSIVE Join(_)
Join(ls) ==
    IF ls = <<>> THEN <<>>
    ELSE IF Len(ls) = 1 THEN ls[1]
    ELSE ls[1] \o <<"LF">> \o Join(Tail(ls))

\* a raw text without the "\r" of each "\r\n" and without its last "\n"
Normalise(s) ==
    LET kept == SelectSeq([i \in 1..Len(s) |-> <<i, s[i]>>],
                    LAMBDA p : ~( /\ p[2] = "CR"
                                  /\ p[1] < Len(s)
                                  /\ s[p[1] + 1] = "LF" ))
        t == [i \in 1..Len(kept) |-> kept[i][2]]
    IN IF t # <<>> /\ t[Len(t)] = "LF" THEN SubSeq(t, 1, Len(t) - 1) ELSE t

\* C7: the line splitting of both paths yields as many lines as the raw text
\* holds, in the order of the raw text, none dropped and none doubled.
C7_SplittingPreservesLines ==
    (pc[1] \in {"split_stdout", "split_file"} /\ IsUtf8(raw)) =>
        /\ Len(split) = NumLines(raw)
        /\ Join(split) = Normalise(raw)
        /\ ret[1] = Ok(split)

C7_Witness ==
    /\ pc[1] = "split_file"
    /\ raw = <<"a", "LF", "LF", "a">>
    /\ split = << <<"a">>, <<>>, <<"a">> >>

\* C8: ls_with_polkit executes its methods in the declared order, one at a
\* time; a method starts only after all before it ended in failure; the first
\* success is returned at once and no later method is executed.
C8_InOrderOneAtATimeShortCircuit ==
    \A t \in Threads :
        op[t] = "ls_with_polkit" =>
            /\ \A j \in 1..Len(started[t]) : started[t][j] = j
            /\ \A j \in 1..Len(finished[t]) : finished[t][j].idx = j
            /\ Len(finished[t]) <= Len(started[t])
            /\ Len(started[t]) <= Len(finished[t]) + 1
            /\ \A j \in 1..(Len(started[t]) - 1) :
                  j <= Len(finished[t]) /\ ~finished[t][j].res.ok
            /\ \A j \in 1..Len(finished[t]) :
                  finished[t][j].res.ok =>
                      /\ j = Len(started[t])
                      /\ pc[t] = "returned"
                      /\ ret[t] = finished[t][j].res

C8_Witness ==
    \E t \in Threads :
        /\ PolkitReturned(t)
        /\ Len(methods[t]) = 2
        /\ started[t] = <<1>>
        /\ ret[t].ok
        /\ ret[t].val = << <<"b">>, <<"b">> >>

\* the original statement of C9: the process result alone decides the class,
\* and every exit 0 is a success
C9_ClassifiedByProcessResultAlone ==
    \A t \in Threads :
        op[t] = "ls_with_polkit" =>
            \A j \in 1..Len(finished[t]) :
                LET f == finished[t][j] IN
                /\ f.proc = "spawn_failed" =>
                      (~f.res.ok /\ ErrorClass(f.res.err) = "ElevationToolUnavailable")
                /\ (f.proc = "exited" /\ f.status # 0) =>
                      (~f.res.ok /\ ErrorClass(f.res.err) = "PermissionDenied")
                /\ (f.proc = "exited" /\ f.status = 0) => f.res.ok
                /\ f.res.ok => (f.proc = "exited" /\ f.status = 0
                                /\ f.res.val = lines(f.stdout))

\* C9: PkexecLsMethod::execute gives ElevationToolUnavailable when the child
\* cannot be spawned, PermissionDenied when it exits non-zero, the split
\* standard output when it exits 0 with decodable output, and the decoding
\* error when it exits 0 with undecodable output; no success without exit 0.
C9_ClassifiedByResultAndDecoding ==
    \A t \in Threads :
        op[t] = "ls_with_polkit" =>
            \A j \in 1..Len(finished[t]) :
                LET f == finished[t][j] IN
                /\ f.proc = "spawn_failed" =>
                      (~f.res.ok /\ ErrorClass(f.res.err) = "ElevationToolUnavailable")
                /\ (f.proc = "exited" /\ f.status # 0) =>
                      (~f.res.ok /\ ErrorClass(f.res.err) = "PermissionDenied")
                /\ (f.proc = "exited" /\ f.status = 0 /\ IsUtf8(f.stdout)) =>
                      f.res = Ok(lines(f.stdout))
                /\ (f.proc = "exited" /\ f.status = 0 /\ ~IsUtf8(f.stdout)) =>
                      f.res = Err(MsgFromUtf8)
                /\ f.res.ok => (f.proc = "exited" /\ f.status = 0)

C9_Witness ==
    \E t \in Threads :
        /\ op[t] = "ls_with_polkit"
        /\ \E j \in 1..Len(finished[t]) :
              /\ finished[t][j].proc = "exited"
              /\ finished[t][j].status = 0
              /\ ~IsUtf8(finished[t][j].stdout)
              /\ finished[t][j].res = Err(MsgFromUtf8)

\* C10: in one call no method is executed twice and every execution makes
\* one spawn; ls_with_sudo holds one method and executes it once.
C10_EachMethodOnceOneSpawnEach ==
    \A t \in Threads :
        /\ spawns[t] = Len(started[t])
        /\ Len(started[t]) <= Len(methods[t])
        /\ \A i \in 1..Len(started[t]), j \in 1..Len(started[t]) :
              i # j => started[t][i] # started[t][j]
        /\ op[t] = "ls_with_sudo" => (Len(methods[t]) = 1 /\ spawns[t] <= 1)
        /\ pc[t] = "returned" => Len(finished[t]) = spawns[t]

C10_Witness ==
    \E t \in Threads :
        /\ SudoReturned(t)
        /\ ~ret[t].ok
        /\ spawns[t] = 1
        /\ calls[t] = 2

====
